---- MODULE Spec2Model ----
(***************************************************************************)
(* Obsidian-To-Org: the Markdown -> Org conversion scripts.                *)
(*                                                                         *)
(* A text is a sequence of one-character strings.  A generated uuid is a   *)
(* single symbol ("u1", "u2", ...) that is neither whitespace nor a word   *)
(* character.  The regular expressions of the scripts are modelled by      *)
(* matchers that follow Python's re semantics (leftmost match, greedy and  *)
(* lazy quantifiers in backtracking order, "." not matching a newline      *)
(* unless DOTALL).                                                         *)
(***************************************************************************)
EXTENDS Integers, Sequences, FiniteSets, TLC

VARIABLES
    \* ---- a run of Obsidian-To-Roam/obsidian-to-roam.py ----
    md_files,       \* the input tree: path -> text of the .md file
    out_files,      \* the out/ tree: path -> text of the .org file, or NoFile
    existing_ids,   \* main's existing_ids dict: title -> identifier
    pc,             \* where main is: "idle", "run", "crashed"
    scan_todo,      \* .org files build_existing_ids_map has still to read
    todo,           \* .md files main has still to convert in this run
    uuid_count,     \* how many uuid4() values have been drawn so far
    runs,           \* how many runs of main have been started
    handed,         \* path -> text written to temp_md_file in this run, or NoFile
    pandoc_rc,      \* exit status of the last os.system(pandoc_command)
    printed,        \* the files of this run's "Converted ..." lines, in order
    first_id,       \* title -> the first identifier the index held in this run
    resolved,       \* {<<title, id>>}: links rewritten by id in this run
    \* ---- the text transforms, applied to one text ----
    note,           \* the text before any transform
    content,        \* the text after the transforms applied so far
    tags,           \* what the last extract_and_convert_tags returned as tags
    index,          \* the existing_ids argument of convert_links_and_images
    ops,            \* the transforms applied so far, in order
    \* ---- one header written and read back ----
    convention,     \* "drawer" (Obsidian-To-Roam) or "inline" (obsidian-to-org.py)
    h_title,        \* filename stem of the .org file
    h_tags,         \* the tags string handed to generate_org_roam_header
    h_body,         \* the rendered text the header is put before
    h_id,           \* the uuid the header generator drew
    h_file,         \* the .org file's text, or NoFile
    h_scanned,      \* what build_existing_ids_map returned
    h_pc            \* "start", then "written", then "scanned"

vars == <<md_files, out_files, existing_ids, pc, scan_todo, todo, uuid_count,
          runs, handed, pandoc_rc, printed, first_id, resolved,
          note, content, tags, index, ops,
          convention, h_title, h_tags, h_body, h_id, h_file, h_scanned, h_pc>>

runVars == <<md_files, out_files, existing_ids, pc, scan_todo, todo, uuid_count,
             runs, handed, pandoc_rc, printed, first_id, resolved>>
textVars == <<note, content, tags, index, ops>>
headerVars == <<convention, h_title, h_tags, h_body, h_id, h_file, h_scanned, h_pc>>

-----------------------------------------------------------------------------
(* Characters and strings *)

\* Python's \s on the characters the model uses
IsSpace(c) == c \in {" ", "\n", "\t"}

\* Python's \w: letters, digits and the underscore
WordChars ==
    {"a","b","c","d","e","f","g","h","i","j","k","l","m","n","o","p","q","r",
     "s","t","u","v","w","x","y","z",
     "A","B","C","D","E","F","G","H","I","J","K","L","M","N","O","P","Q","R",
     "S","T","U","V","W","X","Y","Z",
     "0","1","2","3","4","5","6","7","8","9","_"}

IsWord(c) == c \in WordChars

\* s[i..] starts with the literal lit
StartsWith(s, i, lit) ==
    /\ i >= 1
    /\ i + Len(lit) - 1 <= Len(s)
    /\ \A k \in 1..Len(lit) : s[i + k - 1] = lit[k]

\* s[a..b-1] holds no newline: what "." may match without DOTALL
NoNewline(s, a, b) == \A k \in a..(b - 1) : s[k] # "\n"

\* lit occurs somewhere in s
Contains(s, lit) == \E i \in 1..(Len(s) + 1) : StartsWith(s, i, lit)

\* first position >= i of s that is not whitespace (Len(s)+1 if none): greedy \s*
RECURSIVE SkipSpaces(_, _)
SkipSpaces(s, i) ==
    IF i <= Len(s) /\ IsSpace(s[i]) THEN SkipSpaces(s, i + 1) ELSE i

\* first position >= i of s that is not a word character: greedy \w*
RECURSIVE SkipWord(_, _)
SkipWord(s, i) ==
    IF i <= Len(s) /\ IsWord(s[i]) THEN SkipWord(s, i + 1) ELSE i

\* first position >= i of s that is whitespace: greedy \S*
RECURSIVE SkipNonSpace(_, _)
SkipNonSpace(s, i) ==
    IF i <= Len(s) /\ ~IsSpace(s[i]) THEN SkipNonSpace(s, i + 1) ELSE i

\* the smallest member of a non-empty set of integers
Least(S) == CHOOSE m \in S : \A n \in S : m <= n

\* str.join
RECURSIVE Join(_, _)
Join(sep, list) ==
    IF list = <<>> THEN <<>>
    ELSE IF Len(list) = 1 THEN list[1]
    ELSE list[1] \o sep \o Join(sep, Tail(list))

-----------------------------------------------------------------------------
(* extract_and_convert_tags *)

L_tags == <<"t","a","g","s",":">>

\* one repetition of the group (-\s+\w+\s*) at position p: the position after
\* it, or 0 when the group does not match there
TagItemEnd(s, p) ==
    IF p <= Len(s) /\ s[p] = "-"
    THEN LET q == SkipSpaces(s, p + 1)
             r == SkipWord(s, q)
         IN  IF q > p + 1 /\ r > q THEN SkipSpaces(s, r) ELSE 0
    ELSE 0

\* the greedy repetition (...)+ continued from p, after at least one item
RECURSIVE TagItemsEnd(_, _)
TagItemsEnd(s, p) ==
    LET e == TagItemEnd(s, p) IN IF e = 0 THEN p ELSE TagItemsEnd(s, e)

\* tags_block_pattern = tags:\s*(-\s+\w+\s*)+ matched at position i: the
\* position after the match, or 0
TagsBlockEnd(s, i) ==
    IF StartsWith(s, i, L_tags) /\ TagItemEnd(s, SkipSpaces(s, i + 5)) # 0
    THEN TagItemsEnd(s, SkipSpaces(s, i + 5))
    ELSE 0

\* tag_pattern.findall(block), tag_pattern = -\s+(\S+), scanning from i
RECURSIVE TagFindAll(_, _)
TagFindAll(b, i) ==
    IF i > Len(b) THEN <<>>
    ELSE LET q == SkipSpaces(b, i + 1)
             r == SkipNonSpace(b, q)
         IN  IF b[i] = "-" /\ q > i + 1 /\ q <= Len(b)
             THEN <<SubSeq(b, q, r - 1)>> \o TagFindAll(b, r)
             ELSE TagFindAll(b, i + 1)

\* transform_tags_block: the tags string of one matched block
TagsOfBlock(block) == <<":">> \o Join(<<":">>, TagFindAll(block, 1)) \o <<":">>

\* re.sub(tags_block_pattern, transform_tags_block, content) from position i,
\* with the text kept so far and the tags set so far
RECURSIVE TagsSub(_, _, _, _)
TagsSub(s, i, kept, tg) ==
    IF i > Len(s) THEN [content |-> kept, tags |-> tg]
    ELSE LET e == TagsBlockEnd(s, i)
         IN  IF e # 0
             THEN TagsSub(s, e, kept, TagsOfBlock(SubSeq(s, i, e - 1)))
             ELSE TagsSub(s, i + 1, Append(kept, s[i]), tg)

extract_and_convert_tags(s) == TagsSub(s, 1, <<>>, <<>>)

-----------------------------------------------------------------------------
(* remove_md_header *)

L_open == <<"-","-","-","\n">>
L_close == <<"\n","-","-","-","\n">>

\* the positions where the closing "\n---\n" can start after the opening line
HeaderCloses(s) == {p \in 5..Len(s) : StartsWith(s, p, L_close)}

\* re.sub(r"^---\n.*?\n---\n", "", content) with DOTALL: "^" matches at the
\* start of the text only, and the lazy .*? stops at the first closing line
remove_md_header(s) ==
    IF StartsWith(s, 1, L_open) /\ HeaderCloses(s) # {}
    THEN SubSeq(s, Least(HeaderCloses(s)) + 5, Len(s))
    ELSE s

-----------------------------------------------------------------------------
(* convert_links (Obsidian-To-Org) and convert_links_and_images (Obsidian-To-Roam) *)

L_ll == <<"[","[">>
L_rr == <<"]","]">>
L_bang == <<"!","[">>
L_mid == <<"]","(">>

NoMatch == [ok |-> FALSE]

\* a lazy (.*?) started at p and followed by lit: the position where lit
\* starts, the first that "." can reach, or 0
RECURSIVE LazyUntil(_, _, _)
LazyUntil(s, p, lit) ==
    IF StartsWith(s, p, lit) THEN p
    ELSE IF p > Len(s) \/ s[p] = "\n" THEN 0
    ELSE LazyUntil(s, p + 1, lit)

\* (?:\|(.*?))?\]\] at position p: the optional group is tried first, with
\* the shortest alias after which "]]" follows; when it cannot match, the
\* group is skipped and "]]" must follow at p
AliasThenClose(s, p) ==
    IF p <= Len(s) /\ s[p] = "|" /\ LazyUntil(s, p + 1, L_rr) # 0
    THEN LET e == LazyUntil(s, p + 1, L_rr)
         IN  [ok |-> TRUE, hasAlias |-> TRUE,
              alias |-> SubSeq(s, p + 1, e - 1), end |-> e + 2]
    ELSE IF StartsWith(s, p, L_rr)
         THEN [ok |-> TRUE, hasAlias |-> FALSE, alias |-> <<>>, end |-> p + 2]
         ELSE NoMatch

\* the lazy subheading started at p: the first position after it where the
\* rest of the pattern matches, or 0
RECURSIVE SubEnd(_, _)
SubEnd(s, p) ==
    IF AliasThenClose(s, p).ok THEN p
    ELSE IF p > Len(s) \/ s[p] = "\n" THEN 0
    ELSE SubEnd(s, p + 1)

\* (?:#(.*?))?(?:\|(.*?))?\]\] at position p
SubThenRest(s, p) ==
    IF p <= Len(s) /\ s[p] = "#" /\ SubEnd(s, p + 1) # 0
    THEN LET e == SubEnd(s, p + 1)
         IN  [ok |-> TRUE, hasSub |-> TRUE, sub |-> SubSeq(s, p + 1, e - 1),
              rest |-> AliasThenClose(s, e)]
    ELSE IF AliasThenClose(s, p).ok
         THEN [ok |-> TRUE, hasSub |-> FALSE, sub |-> <<>>,
               rest |-> AliasThenClose(s, p)]
         ELSE NoMatch

\* the lazy target started at p: the first position after it where the rest
\* of the pattern matches, or 0
RECURSIVE TargetEnd(_, _)
TargetEnd(s, p) ==
    IF SubThenRest(s, p).ok THEN p
    ELSE IF p > Len(s) \/ s[p] = "\n" THEN 0
    ELSE TargetEnd(s, p + 1)

\* link_pattern = \[\[(.*?)(?:#(.*?))?(?:\|(.*?))?\]\] matched at position i:
\* group(1), group(2), group(3) (a group that did not take part is None:
\* hasSub, hasAlias FALSE) and the position after the match
LinkAt(s, i) ==
    IF StartsWith(s, i, L_ll) /\ TargetEnd(s, i + 2) # 0
    THEN LET e == TargetEnd(s, i + 2)
             r == SubThenRest(s, e)
         IN  [ok |-> TRUE, target |-> SubSeq(s, i + 2, e - 1),
              hasSub |-> r.hasSub, sub |-> r.sub,
              hasAlias |-> r.rest.hasAlias, alias |-> r.rest.alias,
              end |-> r.rest.end]
    ELSE NoMatch

\* transform_link of convert_links: "if subheading" and "if alias" are false
\* for None and for the empty string; with an alias and no subheading taking
\* part the f-string is not reached with None
OrgLink(m) ==
    IF m.alias # <<>>
    THEN IF m.sub # <<>>
         THEN L_ll \o m.target \o <<":",":">> \o m.sub \o <<"]","[">> \o m.alias \o L_rr
         ELSE L_ll \o m.target \o <<"]","[">> \o m.alias \o L_rr
    ELSE IF m.sub # <<>>
         THEN L_ll \o m.target \o <<":",":">> \o m.sub \o L_rr
         ELSE L_ll \o m.target \o L_rr

\* transform_link with the target shown whether or not an alias is given
IdLink_targetShown(s, i, m, ids) ==
    IF m.target \in DOMAIN ids
    THEN L_ll \o <<"i","d",":">> \o ids[m.target]
         \o (IF m.sub # <<>> THEN <<":",":">> \o m.sub ELSE <<>>)
         \o <<"]","[">> \o m.target \o L_rr
    ELSE SubSeq(s, i, m.end - 1)

\* transform_link of convert_links_and_images
IdLink(s, i, m, ids) ==
    IF m.target \in DOMAIN ids
    THEN L_ll \o <<"i","d",":">> \o ids[m.target]
         \o (IF m.sub # <<>> THEN <<":",":">> \o m.sub ELSE <<>>)
         \o <<"]","[">> \o (IF m.alias # <<>> THEN m.alias ELSE m.target) \o L_rr
    ELSE SubSeq(s, i, m.end - 1)

\* re.sub(link_pattern, transform_link, content) of convert_links, from i
RECURSIVE OrgLinksSub(_, _)
OrgLinksSub(s, i) ==
    IF i > Len(s) THEN <<>>
    ELSE LET m == LinkAt(s, i)
         IN  IF m.ok
             THEN OrgLink(m) \o OrgLinksSub(s, m.end)
             ELSE <<s[i]>> \o OrgLinksSub(s, i + 1)

convert_links(s) == OrgLinksSub(s, 1)

\* re.sub(link_pattern, transform_link, content) of convert_links_and_images
RECURSIVE IdLinksSub(_, _, _)
IdLinksSub(s, i, ids) ==
    IF i > Len(s) THEN <<>>
    ELSE LET m == LinkAt(s, i)
         IN  IF m.ok
             THEN IdLink(s, i, m, ids) \o IdLinksSub(s, m.end, ids)
             ELSE <<s[i]>> \o IdLinksSub(s, i + 1, ids)

\* the lazy alt text started at p: the first position after it where
\* "](" and a path closed by ")" follow, or 0
RECURSIVE AltEnd(_, _)
AltEnd(s, p) ==
    IF StartsWith(s, p, L_mid) /\ LazyUntil(s, p + 2, <<")">>) # 0 THEN p
    ELSE IF p > Len(s) \/ s[p] = "\n" THEN 0
    ELSE AltEnd(s, p + 1)

\* image_pattern = !\[(.*?)\]\((.*?)\) matched at position i
ImageAt(s, i) ==
    IF StartsWith(s, i, L_bang) /\ AltEnd(s, i + 2) # 0
    THEN LET e == AltEnd(s, i + 2)
             c == LazyUntil(s, e + 2, <<")">>)
         IN  [ok |-> TRUE, alt |-> SubSeq(s, i + 2, e - 1),
              path |-> SubSeq(s, e + 2, c - 1), end |-> c + 1]
    ELSE NoMatch

\* transform_image
FileLink(m) == L_ll \o <<"f","i","l","e",":">> \o m.path \o <<"]","[">> \o m.alt \o L_rr

\* re.sub(image_pattern, transform_image, content), from i
RECURSIVE ImagesSub(_, _)
ImagesSub(s, i) ==
    IF i > Len(s) THEN <<>>
    ELSE LET m == ImageAt(s, i)
         IN  IF m.ok
             THEN FileLink(m) \o ImagesSub(s, m.end)
             ELSE <<s[i]>> \o ImagesSub(s, i + 1)

convert_links_and_images(s, ids) == ImagesSub(IdLinksSub(s, 1, ids), 1)

\* the targets of the links transform_link finds in s and resolves by id
RECURSIVE ResolvedTargets(_, _, _)
ResolvedTargets(s, i, ids) ==
    IF i > Len(s) THEN {}
    ELSE LET m == LinkAt(s, i)
         IN  IF m.ok
             THEN (IF m.target \in DOMAIN ids THEN {<<m.target, ids[m.target]>>} ELSE {})
                  \cup ResolvedTargets(s, m.end, ids)
             ELSE ResolvedTargets(s, i + 1, ids)

-----------------------------------------------------------------------------
(* generate_org_roam_header, uuid4 and build_existing_ids_map *)

\* str(uuid.uuid4()): the n-th value drawn, a text of one symbol; no two
\* draws are equal
Uuid(n) == <<"u" \o ToString(n)>>

L_drawer == <<":","P","R","O","P","E","R","T","I","E","S",":","\n",":","I","D",":"," ">>
L_end == <<"\n",":","E","N","D",":","\n">>
L_title == <<"#","+","t","i","t","l","e",":"," ">>
L_roamtags == <<"#","+","R","O","A","M","_","T","A","G","S",":"," ">>
L_filetags == <<"#","+","f","i","l","e","t","a","g","s",":">>
L_aliases == <<"#","+","r","o","a","m","_","a","l","i","a","s","e","s",":"," ","\n">>
L_id == <<"#","+","i","d",":"," ">>
L_marker == <<":","I","D",":">>

\* generate_org_roam_header of Obsidian-To-Roam: the property-drawer header
generate_org_roam_header(title, tg, uid) ==
    L_drawer \o uid \o L_end
    \o L_title \o title \o <<"\n">>
    \o L_roamtags \o tg \o <<"\n","\n">>

\* generate_org_roam_header of src/obsidian-to-org.py: the inline-directive header
generate_org_roam_header_inline(title, tg, uid) ==
    L_title \o title \o <<"\n">>
    \o (IF tg # <<>> THEN L_filetags \o <<" ">> \o tg ELSE L_filetags) \o <<"\n">>
    \o L_aliases
    \o L_id \o uid \o <<"\n","\n">>

\* the positions where :ID:\s+(\S+) matches
IdMatches(s) ==
    {i \in 1..Len(s) :
        /\ StartsWith(s, i, L_marker)
        /\ SkipSpaces(s, i + 4) > i + 4
        /\ SkipSpaces(s, i + 4) <= Len(s)}

\* re.search(r":ID:\s+(\S+)", content): whether it matched, and group(1)
IdSearch(s) ==
    IF IdMatches(s) = {} THEN [ok |-> FALSE]
    ELSE LET q == SkipSpaces(s, Least(IdMatches(s)) + 4)
         IN  [ok |-> TRUE, id |-> SubSeq(s, q, SkipNonSpace(s, q) - 1)]

\* a dict with key k set to v
Put(d, k, v) == [x \in DOMAIN d \cup {k} |-> IF x = k THEN v ELSE d[x]]

\* the body of build_existing_ids_map's loop for one .org file
ScanInto(ids, title, text) ==
    IF IdSearch(text).ok THEN Put(ids, title, IdSearch(text).id) ELSE ids

-----------------------------------------------------------------------------
(* A run of Obsidian-To-Roam: main, build_existing_ids_map, convert_file *)

\* how many times main is run over the same out/ directory
MaxRuns == 2
\* how many uuid4() values are drawn over all runs
MaxUuids == 4

\* what a path holds when there is no file
NoFile == <<"(no file)">>

\* a path is <<directory, filename stem>>; "" is the root of the tree
T_A == <<"A">>
T_B == <<"B">>
MdPaths == {<<"", T_A>>, <<"", T_B>>, <<"d", T_A>>}
OrgPaths == MdPaths
Dir(p) == p[1]
Stem(p) == p[2]

\* the notes: N_hi has no link; N_toA links to A; N_toB links to B under a
\* subheading and holds an image; N_fm has a front matter that is a tags block,
\* and links to A and to a note C that is never converted
N_hi == <<"h","i","\n">>
N_toA == <<"s","e","e"," ","[","[","A","]","]","\n">>
N_toB == <<"[","[","B","#","s","]","]"," ","!","[","p","]","(","i",")","\n">>
N_fm == <<"-","-","-","\n","k",":"," ","v","\n","t","a","g","s",":","\n","-"," ","x","\n","-","-","-","\n",
          "[","[","A","]","]"," ","[","[","C","|","c","]","]","\n">>

NoteChoices ==
    {f \in [MdPaths -> {N_hi, N_toA, N_toB, N_fm}] :
        /\ f[<<"", T_A>>] \in {N_hi, N_toB}
        /\ f[<<"", T_B>>] \in {N_toA, N_fm}
        /\ f[<<"d", T_A>>] \in {N_hi, N_toA}}

\* what pandoc may write for a text: the renderer is outside the repository;
\* it passes the text through, or writes a body that quotes an :ID: line
O_quote == <<"*"," ",":","I","D",":"," ","z","\n">>
PandocOutputs(text) == {text, O_quote}

\* sys.argv[1]: the directory (every .md file, each under its relative path),
\* one .md file (converted with relative path ""), or no valid path
Jobs ==
    {{<<p, Dir(p)>> : p \in MdPaths}} \cup {{<<p, "">>} : p \in MdPaths} \cup {{}}

\* os.walk is top-down: the files of the root come before those of "d"; the
\* order inside a directory is the file system's
DirOfPath(p) == Dir(p)
DirOfJob(j) == Dir(j[1])

\* the files build_existing_ids_map may read next
WalkNextOut(S) ==
    IF \E x \in S : DirOfPath(x) = "" THEN {x \in S : DirOfPath(x) = ""} ELSE S

\* the files main may convert next
WalkNextIn(S) ==
    IF \E x \in S : DirOfJob(x) = "" THEN {x \in S : DirOfJob(x) = ""} ELSE S

\* the variables of the other specifications, which a run leaves alone
TextIdle ==
    /\ note = <<>> /\ content = <<>> /\ tags = <<>> /\ index = <<>> /\ ops = <<>>
HeaderIdle ==
    /\ convention = "" /\ h_title = <<>> /\ h_tags = <<>> /\ h_body = <<>>
    /\ h_id = <<>> /\ h_file = <<>> /\ h_scanned = <<>> /\ h_pc = ""
RunIdle ==
    /\ md_files = <<>> /\ out_files = <<>> /\ existing_ids = <<>> /\ pc = ""
    /\ scan_todo = {} /\ todo = {} /\ uuid_count = 0 /\ runs = 0 /\ handed = <<>>
    /\ pandoc_rc = 0 /\ printed = <<>> /\ first_id = <<>> /\ resolved = {}

InitRun ==
    /\ md_files \in NoteChoices
    /\ out_files = [p \in OrgPaths |-> NoFile]
    /\ existing_ids = <<>>
    /\ pc = "idle"
    /\ scan_todo = {}
    /\ todo = {}
    /\ uuid_count = 0
    /\ runs = 0
    /\ handed = [p \in MdPaths |-> NoFile]
    /\ pandoc_rc = 0
    /\ printed = <<>>
    /\ first_id = <<>>
    /\ resolved = {}

\* main up to the call of build_existing_ids_map: a new process, a new dict
StartRun ==
    /\ pc \in {"idle", "crashed"}
    /\ runs < MaxRuns
    /\ runs' = runs + 1
    /\ pc' = "run"
    /\ existing_ids' = <<>>
    /\ scan_todo' = {p \in OrgPaths : out_files[p] # NoFile}
    /\ \E job \in Jobs : todo' = job
    /\ handed' = [p \in MdPaths |-> NoFile]
    /\ printed' = <<>>
    /\ first_id' = <<>>
    /\ resolved' = {}
    /\ UNCHANGED <<md_files, out_files, uuid_count, pandoc_rc>>
    /\ UNCHANGED <<textVars, headerVars>>

\* one iteration of build_existing_ids_map's loop over the .org files
ScanFile ==
    /\ pc = "run"
    /\ scan_todo # {}
    /\ \E p \in WalkNextOut(scan_todo) :
        /\ existing_ids' = ScanInto(existing_ids, Stem(p), out_files[p])
        /\ scan_todo' = scan_todo \ {p}
    /\ first_id' = IF scan_todo' = {} THEN existing_ids' ELSE first_id
    /\ UNCHANGED <<md_files, out_files, pc, todo, uuid_count, runs, handed,
                   pandoc_rc, printed, resolved>>
    /\ UNCHANGED <<textVars, headerVars>>

\* convert_file without its update of the index
UpdateIds_notRecorded(ids, title, unique_id) == ids

\* the index after convert_file's update (line 133)
UpdateIds(ids, title, unique_id) == Put(ids, title, unique_id)

\* the text convert_file writes to temp_md_file (lines 101-108)
Transformed(text, ids) ==
    convert_links_and_images(
        remove_md_header(extract_and_convert_tags(text).content), ids)

\* the first identifier each title had in this run
FirstSeen(first, ids) ==
    [t \in DOMAIN ids |-> IF t \in DOMAIN first THEN first[t] ELSE ids[t]]

\* convert_file for the next .md file of the walk.  os.system's status is not
\* looked at: when pandoc fails, the output path holds what it held before,
\* and open(org_file, "r+") raises FileNotFoundError when that is nothing.
ConvertFile ==
    /\ pc = "run"
    /\ scan_todo = {}
    /\ todo # {}
    /\ uuid_count < MaxUuids
    /\ \E job \in WalkNextIn(todo), ok \in BOOLEAN :
        LET src == job[1]
            org_file == <<job[2], Stem(src)>>
            tg == extract_and_convert_tags(md_files[src]).tags
            text == Transformed(md_files[src], existing_ids)
            unique_id == Uuid(uuid_count + 1)
        IN  /\ handed' = [handed EXCEPT ![src] = text]
            /\ pandoc_rc' = IF ok THEN 0 ELSE 1
            /\ resolved' = resolved
                   \cup ResolvedTargets(
                            remove_md_header(extract_and_convert_tags(md_files[src]).content),
                            1, existing_ids)
            /\ todo' = todo \ {job}
            /\ \E body \in (IF ok THEN PandocOutputs(text) ELSE {out_files[org_file]}) :
                IF body = NoFile
                THEN /\ pc' = "crashed"
                     /\ UNCHANGED <<out_files, existing_ids, uuid_count, printed, first_id>>
                ELSE /\ out_files' = [out_files EXCEPT ![org_file] =
                            generate_org_roam_header(Stem(org_file), tg, unique_id) \o body]
                     /\ existing_ids' = UpdateIds(existing_ids, Stem(src), unique_id)
                     /\ first_id' = FirstSeen(first_id, existing_ids')
                     /\ uuid_count' = uuid_count + 1
                     /\ printed' = Append(printed, src)
                     /\ pc' = pc
    /\ UNCHANGED <<md_files, scan_todo, runs>>
    /\ UNCHANGED <<textVars, headerVars>>

\* main returns
EndRun ==
    /\ pc = "run"
    /\ scan_todo = {}
    /\ todo = {}
    /\ pc' = "idle"
    /\ UNCHANGED <<md_files, out_files, existing_ids, scan_todo, todo, uuid_count,
                   runs, handed, pandoc_rc, printed, first_id, resolved>>
    /\ UNCHANGED <<textVars, headerVars>>

Init == InitRun /\ TextIdle /\ HeaderIdle

Next == StartRun \/ ScanFile \/ ConvertFile \/ EndRun

Spec == Init /\ [][Next]_vars

-----------------------------------------------------------------------------
(* The text transforms applied to one text *)

\* how many transforms are applied to a text, one after the other
MaxApplied == 2
\* how many pieces a text is made of
MaxPieces == 4

\* the index handed to convert_links_and_images: the note a has an identifier,
\* the note b has none
LinkIndex == (<<"a">> :> <<"u1">>)

\* the pieces of a note: a front-matter delimiter line, a tags block, a tags
\* block of two-word items, a tags block with another list marker, a header
\* field, a line of text, a line with a wiki-link
P_delim == <<"-","-","-","\n">>
P_tags == <<"t","a","g","s",":","\n","-"," ","a","\n">>
P_multi == <<"t","a","g","s",":","\n","-"," ","b"," ","c","\n">>
P_star == <<"t","a","g","s",":","\n","*"," ","a","\n">>
P_field == <<"k",":"," ","v","\n">>
P_line == <<"x","\n">>
P_link == <<"[","[","a","#","b","#","c","]","]","\n">>
Pieces == <<P_delim, P_tags, P_multi, P_star, P_field, P_line, P_link>>

\* the concatenation of the pieces a sequence of piece numbers names
RECURSIVE Glue(_, _)
Glue(pieces, ns) ==
    IF ns = <<>> THEN <<>> ELSE pieces[Head(ns)] \o Glue(pieces, Tail(ns))

NoteTexts ==
    {Glue(Pieces, ns) : ns \in UNION {[1..k -> 1..Len(Pieces)] : k \in 0..MaxPieces}}

InitText ==
    /\ note \in NoteTexts
    /\ content = note
    /\ tags = <<>>
    /\ index = LinkIndex
    /\ ops = <<>>
    /\ RunIdle
    /\ HeaderIdle

\* content, tags = extract_and_convert_tags(content)
ExtractTags ==
    /\ Len(ops) < MaxApplied
    /\ content' = extract_and_convert_tags(content).content
    /\ tags' = extract_and_convert_tags(content).tags
    /\ ops' = Append(ops, "tags")
    /\ UNCHANGED <<note, index, runVars, headerVars>>

\* content = remove_md_header(content)
RemoveHeader ==
    /\ Len(ops) < MaxApplied
    /\ content' = remove_md_header(content)
    /\ ops' = Append(ops, "header")
    /\ UNCHANGED <<note, tags, index, runVars, headerVars>>

\* content = convert_links(content)
ConvertLinks ==
    /\ Len(ops) < MaxApplied
    /\ content' = convert_links(content)
    /\ ops' = Append(ops, "links")
    /\ UNCHANGED <<note, tags, index, runVars, headerVars>>

\* content = convert_links_and_images(content, existing_ids)
ConvertLinksAndImages ==
    /\ Len(ops) < MaxApplied
    /\ content' = convert_links_and_images(content, index)
    /\ ops' = Append(ops, "links_images")
    /\ UNCHANGED <<note, tags, index, runVars, headerVars>>

NextText == ExtractTags \/ RemoveHeader \/ ConvertLinks \/ ConvertLinksAndImages

SpecText == InitText /\ [][NextText]_vars

-----------------------------------------------------------------------------
(* convert_links_and_images applied to texts around one wiki-link *)

\* how long the text between "[[" and "]]" is
MaxInner == 5

InnerChars == {"a", "b", "#", "|"}
Inners == UNION {[1..k -> InnerChars] : k \in 0..MaxInner}

\* what stands before the link: nothing, a stray bracket, the mark of an
\* embed, a link, a link opened on the line before, a link opened on this line
Befores ==
    {<<>>, <<"[">>, <<"!">>, <<"[","[","a","]","]">>, <<"[","[","b","\n">>,
     <<"[","[","b","|">>}

\* what stands after it: nothing, a stray bracket, a link, an image, the end
\* of a link on the next line
Afters ==
    {<<>>, <<"]">>, <<"[","[","a","|","b","]","]">>, <<"!","[","b","]","(","a",")">>,
     <<"\n","|","b","]","]">>}

LinkTexts ==
    {pre \o L_ll \o inner \o L_rr \o post :
        pre \in Befores, inner \in Inners, post \in Afters}

InitLinks ==
    /\ note \in LinkTexts
    /\ content = note
    /\ tags = <<>>
    /\ index = LinkIndex
    /\ ops = <<>>
    /\ RunIdle
    /\ HeaderIdle

\* the link rewriter applied to the note itself
RewriteNote ==
    /\ ops = <<>>
    /\ ConvertLinksAndImages

NextLinks == RewriteNote

SpecLinks == InitLinks /\ [][NextLinks]_vars

-----------------------------------------------------------------------------
(* One header written before a rendered text and read back by the next run *)

T_ID == <<"I","D">>
G_x == <<":","x",":">>
G_ID == <<":","I","D",":">>

InitHeader ==
    /\ convention \in {"drawer", "inline"}
    /\ h_title \in {T_A, T_B, T_ID}
    /\ h_tags \in {<<>>, G_x, G_ID}
    /\ h_body \in {<<>>, N_hi, O_quote}
    /\ h_id = <<>>
    /\ h_file = NoFile
    /\ h_scanned = <<>>
    /\ h_pc = "start"
    /\ RunIdle
    /\ TextIdle

\* convert_file's "Add Org-roam header": the header of the script's
\* convention, with a uuid drawn, before the rendered text
WriteHeader ==
    /\ h_pc = "start"
    /\ \E n \in 1..2 :
        /\ h_id' = Uuid(n)
        /\ h_file' = (IF convention = "drawer"
                      THEN generate_org_roam_header(h_title, h_tags, Uuid(n))
                      ELSE generate_org_roam_header_inline(h_title, h_tags, Uuid(n)))
                     \o h_body
    /\ h_pc' = "written"
    /\ UNCHANGED <<convention, h_title, h_tags, h_body, h_scanned, runVars, textVars>>

\* build_existing_ids_map of a later run over the directory that holds the file
ScanHeader ==
    /\ h_pc = "written"
    /\ h_scanned' = ScanInto(<<>>, h_title, h_file)
    /\ h_pc' = "scanned"
    /\ UNCHANGED <<convention, h_title, h_tags, h_body, h_id, h_file, runVars, textVars>>

NextHeader == WriteHeader \/ ScanHeader

SpecHeader == InitHeader /\ [][NextHeader]_vars

-----------------------------------------------------------------------------
(* The claims *)

WikiLink(t) == L_ll \o t \o L_rr
IdLinkTo(u, t) == L_ll \o <<"i","d",":">> \o u \o <<"]","[">> \o t \o L_rr
T_C == <<"C">>
Titles == {T_A, T_B, T_C}
P_rootA == <<"", T_A>>
P_rootB == <<"", T_B>>

\* this step is convert_file for the file b
Converts(b) == pc = "run" /\ handed[b] = NoFile /\ handed'[b] # NoFile

\* a file with title t has been converted earlier in this run
ConvertedEarlier(t) == \E k \in 1..Len(printed) : Stem(printed[k]) = t

\* C1: in one run, every wiki-link to a title that is rewritten by identifier
\* is addressed by the identifier the Identifier Index first held for that
\* title in the run (as returned by build_existing_ids_map, or as first
\* recorded by convert_file).
C1_SameIdentifierWithinRun ==
    \A r \in resolved : r[1] \in DOMAIN first_id /\ r[2] = first_id[r[1]]

\* C2: when a run converts T.md while out/ holds T.org carrying identifier U
\* from an earlier run, T.org carries U afterwards and the index maps T to U
\* (stated for the conversions whose pandoc call succeeds).
C2_IdentifierKeptAcrossRuns ==
    [][\A p \in OrgPaths :
          (pc = "run" /\ out_files[p] # NoFile /\ IdSearch(out_files[p]).ok
              /\ out_files'[p] # out_files[p] /\ pandoc_rc' = 0)
          => /\ IdSearch(out_files'[p]) = IdSearch(out_files[p])
             /\ Stem(p) \in DOMAIN existing_ids'
             /\ existing_ids'[Stem(p)] = IdSearch(out_files[p]).id]_vars

\* C4: within a run, once a title is mapped to an identifier, no later scan
\* entry and no later conversion changes the value stored for it.
C4_FirstWriterWins ==
    [][(pc = "run" /\ pc' # "idle")
          => \A t \in DOMAIN existing_ids :
                t \in DOMAIN existing_ids' /\ existing_ids'[t] = existing_ids[t]]_vars

\* C5: when a file b whose text holds [[t]] is converted, then (a) if a file
\* titled t was converted earlier in the run, the text handed to the renderer
\* holds a link addressed by the identifier in that file's .org header, and
\* (b) if t is not in the index (neither scanned nor converted earlier), the
\* text handed to the renderer holds [[t]] as it was.
C5_LinkToEarlierNote ==
    [][\A b \in MdPaths, t \in Titles :
          (Converts(b) /\ Contains(md_files[b], WikiLink(t)))
          => /\ ConvertedEarlier(t)
                => \E k \in 1..Len(printed) :
                      /\ Stem(printed[k]) = t
                      /\ IdSearch(out_files[printed[k]]).ok
                      /\ Contains(handed'[b],
                                  IdLinkTo(IdSearch(out_files[printed[k]]).id, t))
             /\ t \notin DOMAIN existing_ids
                => Contains(handed'[b], WikiLink(t))]_vars

\* C5's case: A.md then B.md converted, B.md holds [[A]], and the text handed
\* to the renderer for B holds the link addressed by the identifier of A.org
C5_Witness ==
    /\ printed = <<P_rootA, P_rootB>>
    /\ Contains(md_files[P_rootB], WikiLink(T_A))
    /\ IdSearch(out_files[P_rootA]).ok
    /\ Contains(handed[P_rootB], IdLinkTo(IdSearch(out_files[P_rootA]).id, T_A))

\* C9: a convert_file whose pandoc call fails leaves the output files, the
\* index and the list of reported conversions as they were.
C9_RendererFailureDetected ==
    [][(pc = "run" /\ scan_todo = {} /\ todo' # todo /\ pandoc_rc' # 0)
          => /\ out_files' = out_files
             /\ existing_ids' = existing_ids
             /\ printed' = printed]_vars

\* C3: for either header convention, the next run's build_existing_ids_map
\* maps the file's title to exactly the identifier the header generator drew.
C3_HeaderIdRecovered ==
    h_pc = "scanned"
    => /\ DOMAIN h_scanned = {h_title}
       /\ h_scanned[h_title] = h_id

\* C6: a transform applied to its own output returns that output unchanged.
C6_TransformsIdempotent ==
    [][(ops # <<>> /\ Len(ops') = Len(ops) + 1 /\ ops'[Len(ops')] = ops[Len(ops)])
          => content' = content]_vars

\* C8, C10: the tags block as the specification words it: a line "tags:"
\* followed by a list-item line that holds a single bare word
ItemLineAt(s, j) ==
    /\ StartsWith(s, j, <<"-"," ">>)
    /\ SkipWord(s, j + 2) > j + 2
    /\ (SkipWord(s, j + 2) > Len(s) \/ s[SkipWord(s, j + 2)] = "\n")
TagsBlockAt(s, i) ==
    /\ (i = 1 \/ s[i - 1] = "\n")
    /\ StartsWith(s, i, L_tags \o <<"\n">>)
    /\ ItemLineAt(s, i + 6)
HasTagsBlock(s) == \E i \in 1..Len(s) : TagsBlockAt(s, i)

\* C8: for a text with no tags block of the recognized shape,
\* extract_and_convert_tags returns the text unchanged and no tags.
C8_NoBlockNoChange ==
    (ops = <<"tags">> /\ ~HasTagsBlock(note))
    => (content = note /\ tags = <<>>)

\* C10: a note's front matter: the text opens with a "---" line, and the
\* first later "---" line closes it
ClosingLines(s) ==
    {p \in 4..Len(s) : s[p] = "\n" /\ StartsWith(s, p + 1, L_open)}
HasFrontMatter(s) == StartsWith(s, 1, L_open) /\ ClosingLines(s) # {}
FrontMatter(s) == SubSeq(s, 5, Least(ClosingLines(s)))
AfterFrontMatter(s) == SubSeq(s, Least(ClosingLines(s)) + 5, Len(s))

\* C10: for a note whose front matter holds a tags block, the tag extractor
\* followed by the header stripper leaves exactly the text after the closing
\* delimiter line.
C10_HeaderWithTagsRemoved ==
    (ops = <<"tags", "header">> /\ HasFrontMatter(note)
        /\ HasTagsBlock(FrontMatter(note)))
    => content = AfterFrontMatter(note)

\* C7: the wiki-link occurrences of a text, read left to right: an occurrence
\* opens at "[[" and closes at the first "]]" on the same line; inside, the
\* target ends at the first "#" or "|"; after "#" the subheading ends at the
\* next "|"; after "|" everything is the alias
FirstClose(s, p) ==
    LET C == {j \in p..(Len(s) - 1) : StartsWith(s, j, L_rr) /\ NoNewline(s, p, j)}
    IN  IF C = {} THEN 0 ELSE Least(C)
FirstOf(s, chars) ==
    LET C == {j \in 1..Len(s) : s[j] \in chars} IN IF C = {} THEN Len(s) + 1 ELSE Least(C)
TargetOf(inner) == SubSeq(inner, 1, FirstOf(inner, {"#", "|"}) - 1)
AfterTarget(inner) == SubSeq(inner, FirstOf(inner, {"#", "|"}), Len(inner))
SubOf(inner) ==
    LET r == AfterTarget(inner)
    IN  IF r # <<>> /\ r[1] = "#" THEN SubSeq(r, 2, FirstOf(r, {"|"}) - 1) ELSE <<>>
AliasOf(inner) ==
    LET r == AfterTarget(inner)
    IN  SubSeq(r, FirstOf(r, {"|"}) + 1, Len(r))

\* what the claim says an occurrence [[inner]] becomes
Becomes(inner, ids) ==
    IF TargetOf(inner) \in DOMAIN ids
    THEN L_ll \o <<"i","d",":">> \o ids[TargetOf(inner)]
         \o (IF SubOf(inner) # <<>> THEN <<":",":">> \o SubOf(inner) ELSE <<>>)
         \o <<"]","[">>
         \o (IF AliasOf(inner) # <<>> THEN AliasOf(inner) ELSE TargetOf(inner))
         \o L_rr
    ELSE L_ll \o inner \o L_rr

\* the text with every occurrence replaced by what it becomes
RECURSIVE Rewritten(_, _, _)
Rewritten(s, i, ids) ==
    IF i > Len(s) THEN <<>>
    ELSE IF StartsWith(s, i, L_ll) /\ FirstClose(s, i + 2) # 0
         THEN Becomes(SubSeq(s, i + 2, FirstClose(s, i + 2) - 1), ids)
              \o Rewritten(s, FirstClose(s, i + 2) + 2, ids)
         ELSE <<s[i]>> \o Rewritten(s, i + 1, ids)

\* C7: convert_links_and_images rewrites every wiki-link occurrence whose
\* target is a key of the index to [[id:U][D]] or [[id:U::sub][D]], D the
\* alias if given and else the target, and leaves every other occurrence as
\* it was (the returned text is that rewritten text after the image pass of
\* line 71, which is the rewritten text itself when no image occurs in it);
\* the index is as it was.
C7_LinksRewritten ==
    ops = <<"links_images">>
    => (content = ImagesSub(Rewritten(note, 1, index), 1) /\ index = LinkIndex)

\* C7's case: [[a#b|b]] with a in the index has become [[id:u1::b][b]]
C7_Witness ==
    /\ ops = <<"links_images">>
    /\ note = <<"[","[","a","#","b","|","b","]","]">>
    /\ content = <<"[","[","i","d",":","u1",":",":","b","]","[","b","]","]">>

====
